---- MODULE Spec2Model ----
(***************************************************************************)
(* geo-travel-validator: isTravelPossible and its helpers (src/src/types.ts) *)
(*                                                                         *)
(* JavaScript numbers are modelled as exact rationals extended with        *)
(* +Infinity and NaN.  Coordinates are whole degrees.  The trigonometric   *)
(* functions are tabulated on the quarter-turn grid (multiples of 90       *)
(* degrees), where sin^2 and cos are rational, and Math.PI is the rational *)
(* 355/113.  A timestamp is either not a Date at all, or a Date whose time *)
(* value is a number of milliseconds or NaN (an "Invalid Date").           *)
(* Binary floating-point rounding error (for instance Math.cos(Math.PI/2)  *)
(* being 6e-17 rather than 0) is outside the model: arithmetic is exact,   *)
(* and only toFixed rounds.  The LoginEvent interface has no userId; the   *)
(* observations carry one because src/README.md documents it.              *)
(***************************************************************************)
EXTENDS Integers, Sequences, FiniteSets, TLC

VARIABLES login1, login2, maxSpeedArg, precisionArg, pc, result, error, offender

vars == <<login1, login2, maxSpeedArg, precisionArg, pc, result, error, offender>>

\* ------------------------------------------------------------- bounds
\* Timestamps range over 0 .. MaxTick hours.
MaxTick == 2
\* Explicit decimalPrecision arguments range over 0 .. MaxPrecision.
MaxPrecision == 1

\* ------------------------------------------------------------ numbers
Abs(i) == IF i < 0 THEN -i ELSE i

RECURSIVE GCD(_, _)
GCD(a, b) == IF b = 0 THEN a ELSE GCD(b, a % b)

RECURSIVE Pow10(_)
Pow10(p) == IF p = 0 THEN 1 ELSE 10 * Pow10(p - 1)

\* The finite number n/d in lowest terms, d > 0.
Fin(n, d) ==
    LET g == GCD(Abs(n), Abs(d))
        s == IF d < 0 THEN -1 ELSE 1
    IN  [k |-> "fin", n |-> (s * n) \div g, d |-> (s * d) \div g]

Num(i) == [k |-> "fin", n |-> i, d |-> 1]
Infinity == [k |-> "inf", n |-> 1, d |-> 0]
NaN == [k |-> "nan", n |-> 0, d |-> 0]

Floor(x) == x.n \div x.d

\* a < b on finite numbers: whole parts first, then the fractional parts.
FinLess(a, b) ==
    IF Floor(a) # Floor(b)
    THEN Floor(a) < Floor(b)
    ELSE (a.n % a.d) * b.d < (b.n % b.d) * a.d

\* JavaScript a <= b: false when either side is NaN.
LessEq(a, b) ==
    IF a.k = "nan" \/ b.k = "nan" THEN FALSE
    ELSE IF b.k = "inf" THEN TRUE
    ELSE IF a.k = "inf" THEN FALSE
    ELSE ~FinLess(b, a)

\* JavaScript a > b: false when either side is NaN.
Greater(a, b) ==
    IF a.k = "nan" \/ b.k = "nan" THEN FALSE
    ELSE IF a.k = "inf" THEN b.k # "inf"
    ELSE IF b.k = "inf" THEN FALSE
    ELSE FinLess(b, a)

\* JavaScript a === b on numbers: NaN equals nothing.
StrictEq(a, b) == a.k # "nan" /\ b.k # "nan" /\ a = b

\* JavaScript a - b, a + b (no Infinity operands occur).
Sub(a, b) ==
    IF a.k # "fin" \/ b.k # "fin" THEN NaN
    ELSE Fin(a.n * b.d - b.n * a.d, a.d * b.d)

Add(a, b) ==
    IF a.k # "fin" \/ b.k # "fin" THEN NaN
    ELSE Fin(a.n * b.d + b.n * a.d, a.d * b.d)

\* JavaScript a * b on finite numbers, cross-reduced before multiplying.
Mul(a, b) ==
    IF a.k # "fin" \/ b.k # "fin" THEN NaN
    ELSE LET g1 == GCD(Abs(a.n), b.d)
             g2 == GCD(Abs(b.n), a.d)
         IN  Fin((a.n \div g1) * (b.n \div g2), (a.d \div g2) * (b.d \div g1))

\* JavaScript a / b for a >= 0: x/0 is Infinity, 0/0 and anything with NaN is NaN.
Div(a, b) ==
    IF a.k # "fin" \/ b.k # "fin" THEN NaN
    ELSE IF b.n = 0 THEN (IF a.n = 0 THEN NaN ELSE Infinity)
    ELSE Mul(a, Fin(b.d, b.n))

\* parseFloat(x.toFixed(p)): round to p decimals, ties away from zero;
\* "NaN" and "Infinity" print and parse back to themselves.
toFixed(x, p) ==
    IF x.k # "fin" THEN x
    ELSE LET m == Abs(x.n)
             q == m \div x.d
             r == m % x.d
             scaled == q * Pow10(p) + (2 * r * Pow10(p) + x.d) \div (2 * x.d)
         IN  Fin((IF x.n < 0 THEN -1 ELSE 1) * scaled, Pow10(p))

\* ---------------------------------------------------------- constants
EARTH_RADIUS_KM == 6371
DEFAULT_MAX_SPEED_KMH == 1200
DEFAULT_DECIMAL_PRECISION == 2
MS_PER_MINUTE == 1000 * 60
MS_PER_HOUR == 60 * MS_PER_MINUTE
PI == Fin(355, 113)

\* --------------------------------------------------------- validation
NoError == [name |-> "none", value |-> 0, min |-> 0, max |-> 0]
TimestampError == [name |-> "timestamp", value |-> 0, min |-> 0, max |-> 0]

\* The message thrown for an out-of-range coordinate, or NoError.
validateCoordinates(lat, lon) ==
    IF lat < -90 \/ lat > 90
    THEN [name |-> "latitude", value |-> lat, min |-> -90, max |-> 90]
    ELSE IF lon < -180 \/ lon > 180
    THEN [name |-> "longitude", value |-> lon, min |-> -180, max |-> 180]
    ELSE NoError

\* ----------------------------------------------------------- geometry
\* Math.sin(toRadians(deg) / 2) ** 2 for deg a multiple of 90.
Sin2Half(deg) ==
    LET m == (Abs(deg) \div 90) % 4
    IN  IF m = 0 THEN Num(0) ELSE IF m = 2 THEN Num(1) ELSE Fin(1, 2)

\* Math.cos(toRadians(deg)) for deg a multiple of 90.
Cos(deg) ==
    LET m == (Abs(deg) \div 90) % 4
    IN  IF m = 0 THEN Num(1) ELSE IF m = 2 THEN Num(-1) ELSE Num(0)

\* 2 * Math.atan2(Math.sqrt(a), Math.sqrt(1 - a)) for a in {0, 1/2, 1}.
CentralAngle(a) ==
    IF a = Num(0) THEN Num(0)
    ELSE IF a = Fin(1, 2) THEN Mul(PI, Fin(1, 2))
    ELSE PI

\* The validation outcome and, when it passes, the distance in kilometres.
\* "pair" is the argument pair whose validation threw (1 or 2, 0 for none).
haversineDistance(lat1, lon1, lat2, lon2) ==
    LET e1 == validateCoordinates(lat1, lon1)
        e2 == validateCoordinates(lat2, lon2)
    IN  IF e1 # NoError THEN [error |-> e1, pair |-> 1, km |-> NaN]
        ELSE IF e2 # NoError THEN [error |-> e2, pair |-> 2, km |-> NaN]
        ELSE LET a == Add(Sin2Half(lat2 - lat1),
                          Mul(Mul(Sin2Half(lon2 - lon1), Cos(lat1)), Cos(lat2)))
             IN  [error |-> NoError, pair |-> 0,
                  km |-> Mul(Num(EARTH_RADIUS_KM), CentralAngle(a))]

\* -------------------------------------------------------------- speed
\* Variant: the minutes are not converted to hours.
calculateRequiredSpeedPerMinute(distanceKm, timeMinutes) ==
    IF LessEq(timeMinutes, Num(0))
    THEN Infinity
    ELSE Div(distanceKm, timeMinutes)

calculateRequiredSpeed(distanceKm, timeMinutes) ==
    IF LessEq(timeMinutes, Num(0))
    THEN Infinity
    ELSE Div(distanceKm, Div(timeMinutes, Num(60)))

\* ------------------------------------------------------------- inputs
\* A timestamp field: a non-Date value, an Invalid Date, or a valid Date.
Timestamps ==
    {[isDate |-> FALSE, time |-> NaN], [isDate |-> TRUE, time |-> NaN]}
    \cup {[isDate |-> TRUE, time |-> Num(t * MS_PER_HOUR)] : t \in 0 .. MaxTick}

Latitudes == {-91, 0, 90, 91}
Longitudes == {-181, -180, 0, 180, 181}

LoginEvents(users) ==
    [userId : users, timestamp : Timestamps,
     latitude : Latitudes, longitude : Longitudes]

\* A quarter of the Earth's circumference per hour, in km/h.
QuarterTurnPerHour == Mul(Num(EARTH_RADIUS_KM), Mul(PI, Fin(1, 2)))

\* The maxSpeedKmh argument: omitted, or a positive number.
MaxSpeedArgs ==
    {[given |-> FALSE, value |-> NaN],
     [given |-> TRUE, value |-> Num(20015)],
     [given |-> TRUE, value |-> QuarterTurnPerHour]}

\* The decimalPrecision argument: omitted, or a non-negative integer.
PrecisionArgs ==
    {[given |-> FALSE, value |-> 0]}
    \cup {[given |-> TRUE, value |-> p] : p \in 0 .. MaxPrecision}

\* ------------------------------------------------------ isTravelPossible
NoResult ==
    [possible |-> FALSE, requiredSpeedKmh |-> NaN, maxAllowedSpeedKmh |-> NaN,
     distanceKm |-> NaN, timeDifferenceMinutes |-> NaN]

NoOffender == [login |-> 0, field |-> "none"]

Returned(r) ==
    [pc |-> "returned", result |-> r, error |-> NoError, offender |-> NoOffender]

Threw(e, who) ==
    [pc |-> "threw", result |-> NoResult, error |-> e, offender |-> who]

\* Variant: either coordinate equal counts as the same location.
sameLocationEither(earlierLogin, laterLogin) ==
    \/ earlierLogin.latitude = laterLogin.latitude
    \/ earlierLogin.longitude = laterLogin.longitude

sameLocation(earlierLogin, laterLogin) ==
    /\ earlierLogin.latitude = laterLogin.latitude
    /\ earlierLogin.longitude = laterLogin.longitude

\* Variant: the same-place result echoes the default ceiling, not the argument.
SameLocationResultDefaultMax(maxSpeedKmh) ==
    [possible |-> TRUE, requiredSpeedKmh |-> Num(0),
     maxAllowedSpeedKmh |-> Num(DEFAULT_MAX_SPEED_KMH), distanceKm |-> Num(0),
     timeDifferenceMinutes |-> Num(0)]

SameLocationResult(maxSpeedKmh) ==
    [possible |-> TRUE, requiredSpeedKmh |-> Num(0),
     maxAllowedSpeedKmh |-> maxSpeedKmh, distanceKm |-> Num(0),
     timeDifferenceMinutes |-> Num(0)]

DifferentLocationResult(distanceKm, maxSpeedKmh, decimalPrecision) ==
    [possible |-> FALSE, requiredSpeedKmh |-> Infinity,
     maxAllowedSpeedKmh |-> maxSpeedKmh,
     distanceKm |-> toFixed(distanceKm, decimalPrecision),
     timeDifferenceMinutes |-> Num(0)]

\* Variant: exclusive threshold.
PossibleStrict(requiredSpeed, maxSpeedKmh) ==
    ~LessEq(maxSpeedKmh, requiredSpeed) /\ requiredSpeed.k = "fin"

Possible(requiredSpeed, maxSpeedKmh) == LessEq(requiredSpeed, maxSpeedKmh)

GeneralResult(distanceKm, timeDiffMinutes, maxSpeedKmh, decimalPrecision) ==
    LET requiredSpeed == calculateRequiredSpeed(distanceKm, timeDiffMinutes)
    IN  [possible |-> Possible(requiredSpeed, maxSpeedKmh),
         requiredSpeedKmh |-> toFixed(requiredSpeed, decimalPrecision),
         maxAllowedSpeedKmh |-> maxSpeedKmh,
         distanceKm |-> toFixed(distanceKm, decimalPrecision),
         timeDifferenceMinutes |-> toFixed(timeDiffMinutes, decimalPrecision)]

isTravelPossible(l1, l2, maxArg, precArg) ==
    LET maxSpeedKmh == IF maxArg.given THEN maxArg.value
                       ELSE Num(DEFAULT_MAX_SPEED_KMH)
        decimalPrecision == IF precArg.given THEN precArg.value
                            ELSE DEFAULT_DECIMAL_PRECISION
        earlierIs1 == LessEq(l1.timestamp.time, l2.timestamp.time)
        laterIs1 == Greater(l1.timestamp.time, l2.timestamp.time)
        earlierLogin == IF earlierIs1 THEN l1 ELSE l2
        laterLogin == IF laterIs1 THEN l1 ELSE l2
        timeDiffMs == Sub(laterLogin.timestamp.time, earlierLogin.timestamp.time)
        timeDiffMinutes == Div(timeDiffMs, Num(MS_PER_MINUTE))
        h == haversineDistance(earlierLogin.latitude, earlierLogin.longitude,
                               laterLogin.latitude, laterLogin.longitude)
        who == [login |-> IF h.pair = 1
                          THEN (IF earlierIs1 THEN 1 ELSE 2)
                          ELSE (IF laterIs1 THEN 1 ELSE 2),
                field |-> h.error.name]
    IN  IF ~l1.timestamp.isDate \/ ~l2.timestamp.isDate
        THEN Threw(TimestampError, NoOffender)
        ELSE IF StrictEq(timeDiffMinutes, Num(0))
        THEN IF sameLocation(earlierLogin, laterLogin)
             THEN Returned(SameLocationResult(maxSpeedKmh))
             ELSE IF h.error # NoError THEN Threw(h.error, who)
             ELSE Returned(DifferentLocationResult(h.km, maxSpeedKmh,
                                                   decimalPrecision))
        ELSE IF h.error # NoError THEN Threw(h.error, who)
        ELSE Returned(GeneralResult(h.km, timeDiffMinutes, maxSpeedKmh,
                                    decimalPrecision))

\* ------------------------------------------------------ specification
Init ==
    /\ login1 \in LoginEvents({"alice"})
    /\ login2 \in LoginEvents({"alice", "bob"})
    /\ maxSpeedArg \in MaxSpeedArgs
    /\ precisionArg \in PrecisionArgs
    /\ pc = "call"
    /\ result = NoResult
    /\ error = NoError
    /\ offender = NoOffender

\* One call isTravelPossible(login1, login2, maxSpeedKmh, decimalPrecision).
Call ==
    /\ pc = "call"
    /\ LET r == isTravelPossible(login1, login2, maxSpeedArg, precisionArg)
       IN  /\ pc' = r.pc
           /\ result' = r.result
           /\ error' = r.error
           /\ offender' = r.offender
    /\ UNCHANGED <<login1, login2, maxSpeedArg, precisionArg>>

Next == Call

Spec == Init /\ [][Next]_vars

\* ------------------------------------------------- vocabulary of the claims
Done == pc # "call"

ValidInstant(l) == l.timestamp.isDate /\ l.timestamp.time.k = "fin"

OutOfRange(l) ==
    \/ l.latitude < -90 \/ l.latitude > 90
    \/ l.longitude < -180 \/ l.longitude > 180

SamePlace == login1.latitude = login2.latitude /\ login1.longitude = login2.longitude

SameInstant ==
    ValidInstant(login1) /\ ValidInstant(login2)
    /\ login1.timestamp.time = login2.timestamp.time

CoordinateError == error.name \in {"latitude", "longitude"}

ErrorKind(e) ==
    IF e.name \in {"latitude", "longitude"} THEN "InvalidCoordinate" ELSE e.name

\* The ceiling and precision in force: the argument, or its default.
Ceiling == IF maxSpeedArg.given THEN maxSpeedArg.value ELSE Num(DEFAULT_MAX_SPEED_KMH)
Precision == IF precisionArg.given THEN precisionArg.value ELSE DEFAULT_DECIMAL_PRECISION

\* Elapsed minutes between two valid instants, later minus earlier.
ElapsedMinutes ==
    LET t1 == login1.timestamp.time
        t2 == login2.timestamp.time
        ms == IF FinLess(t1, t2) THEN Sub(t2, t1) ELSE Sub(t1, t2)
    IN  Fin(ms.n, ms.d * MS_PER_MINUTE)

\* The unrounded speed of the general branch, from the arguments as passed.
UnroundedSpeed ==
    Div(haversineDistance(login1.latitude, login1.longitude,
                          login2.latitude, login2.longitude).km,
        Div(ElapsedMinutes, Num(60)))

GeneralCase ==
    /\ ValidInstant(login1) /\ ValidInstant(login2)
    /\ login1.timestamp.time # login2.timestamp.time
    /\ ~OutOfRange(login1) /\ ~OutOfRange(login2)

\* The call with the two observations exchanged.
Swapped == isTravelPossible(login2, login1, maxSpeedArg, precisionArg)

\* ------------------------------------------------------------------ claims
\* C1: whenever some coordinate is out of range, the call throws an
\* invalid-coordinate error and returns no result, for every combination of
\* the two instants (earlier, later, equal) and whatever the other
\* observation's coordinates are.
C1_OutOfRangeAlwaysThrows ==
    (Done /\ ValidInstant(login1) /\ ValidInstant(login2)
          /\ (OutOfRange(login1) \/ OutOfRange(login2)))
    => (pc = "threw" /\ CoordinateError)

\* C2: a timestamp that is not a valid instant (a non-Date value or an Invalid
\* Date) makes the call throw the invalid-timestamp error, never a result or
\* an invalid-coordinate error.
C2_InvalidTimestampThrows ==
    (Done /\ (~ValidInstant(login1) \/ ~ValidInstant(login2)))
    => (pc = "threw" /\ error = TimestampError)

\* C3: exchanging the two observations does not change the outcome: both
\* calls throw an error of the same kind, or both return results equal in all
\* five fields.
C3_OrderIndependent ==
    Done => /\ Swapped.pc = pc
            /\ ErrorKind(Swapped.error) = ErrorKind(error)
            /\ Swapped.result = result

\* C4: in the general branch (coordinates in range, the two instants differ)
\* a result is returned with possible = (unrounded required speed <= ceiling),
\* the boundary included.
C4_InclusiveThreshold ==
    (Done /\ GeneralCase)
    => (pc = "returned" /\ result.possible = LessEq(UnroundedSpeed, Ceiling))

\* C4 witness: a general-branch result whose required speed equals the ceiling.
C4_AtCeiling ==
    pc = "returned" /\ GeneralCase /\ UnroundedSpeed = Ceiling /\ result.possible

\* C5: equal instants and different coordinates, all in range, give
\* possible = false, requiredSpeedKmh = +Infinity, timeDifferenceMinutes = 0
\* and the ceiling echoed, whatever the ceiling is.
C5_ZeroTimeDifferentPlace ==
    (Done /\ SameInstant /\ ~SamePlace /\ ~OutOfRange(login1) /\ ~OutOfRange(login2))
    => /\ pc = "returned"
       /\ result.possible = FALSE
       /\ result.requiredSpeedKmh = Infinity
       /\ result.timeDifferenceMinutes = Num(0)
       /\ result.maxAllowedSpeedKmh = Ceiling

\* C5 witness: such a result for two places that differ in longitude only,
\* under a ceiling passed explicitly.
C5_ZeroTimeApart ==
    /\ pc = "returned" /\ SameInstant /\ maxSpeedArg.given
    /\ login1.latitude = login2.latitude /\ login1.longitude # login2.longitude
    /\ result.requiredSpeedKmh = Infinity

C7_PayloadNamesTheInput ==
    (pc = "threw" /\ CoordinateError
       /\ Swapped.pc = "threw" /\ Swapped.error.name \in {"latitude", "longitude"}
       /\ Swapped.offender # offender)
    => Swapped.error # error

\* C8: two otherwise valid observations of different users make the call
\* throw a mismatched-user error and return no result.
C8_MismatchedUserThrows ==
    (Done /\ login1.userId # login2.userId
          /\ ValidInstant(login1) /\ ValidInstant(login2)
          /\ ~OutOfRange(login1) /\ ~OutOfRange(login2))
    => (pc = "threw" /\ error.name = "userId")

\* C9: every returned result has timeDifferenceMinutes >= 0.
C9_TimeDifferenceNonNegative ==
    pc = "returned" => LessEq(Num(0), result.timeDifferenceMinutes)

\* C10 (as claimed): every returned result has possible = true exactly when
\* its own rounded requiredSpeedKmh does not exceed its maxAllowedSpeedKmh, or
\* the two observations coincide in time and coordinates.
C10_RoundedSelfConsistent ==
    pc = "returned"
    => (result.possible <=>
          (\/ LessEq(result.requiredSpeedKmh, result.maxAllowedSpeedKmh)
           \/ (SameInstant /\ SamePlace)))

\* C10 (amended): the verdict is taken on the unrounded speed, so the returned
\* requiredSpeedKmh agrees with possible only up to one unit of the last
\* retained decimal: possible = false implies it is above the ceiling minus
\* that unit (or NaN), possible = true implies it is below the ceiling plus
\* that unit; and for two valid instants possible is true exactly when the
\* unrounded speed does not exceed the ceiling or the observations coincide.
C10_SelfConsistentUpToRounding ==
    pc = "returned"
    => LET unit == Fin(1, Pow10(Precision))
           speed == IF SameInstant
                    THEN (IF SamePlace THEN Num(0) ELSE Infinity)
                    ELSE UnroundedSpeed
       IN  /\ result.maxAllowedSpeedKmh = Ceiling
           /\ ~result.possible
                => ~LessEq(result.requiredSpeedKmh, Sub(Ceiling, unit))
           /\ result.possible
                => ~LessEq(Add(Ceiling, unit), result.requiredSpeedKmh)
           /\ (ValidInstant(login1) /\ ValidInstant(login2))
                => (result.possible <=> LessEq(speed, Ceiling))

\* C10 witness: a result whose speed rounds down onto the ceiling it exceeds.
C10_RoundsOntoCeiling ==
    /\ pc = "returned" /\ GeneralCase /\ ~result.possible
    /\ LessEq(result.requiredSpeedKmh, result.maxAllowedSpeedKmh)

====
